---------------------------- MODULE Spec2Model ----------------------------
(***************************************************************************)
(* A model of realm's C-callable instance manager (src/src/lib.rs):        *)
(* start_realm / stop_realm over the process-wide RUNTIME_MAP, the two     *)
(* Once initialisers, the port allocator, the endpoint builder and the     *)
(* orchestrator task `run` with its TCP/UDP workers.                       *)
(*                                                                         *)
(* Text is modelled as a sequence of pieces, format!() as concatenation.   *)
(* The strings a caller passes are sequences of one-character strings, so  *)
(* two different argument tuples may or may not format to the same text;   *)
(* a literal of the source that no input can spell is one piece.           *)
(***************************************************************************)
EXTENDS Naturals, Sequences, FiniteSets, TLC

(***************************************************************************)
(* Bounds of the model.                                                    *)
(***************************************************************************)
\* calls issued in one run (caps the reference counts, the runtimes built and
\* the run length)
MaxCalls == 3

\* the endpoints handed to one orchestrator when `run` is checked by itself
MaxEndpoints == 2

\* host threads calling start_realm / stop_realm concurrently
Threads == {1, 2}
\* TCP ports the OS can hand out on 127.0.0.1
Ports == {1, 2}

(***************************************************************************)
(* Inputs.                                                                 *)
(***************************************************************************)
Remotes == { <<"r">>, <<"r", "-", "h">> }
Hosts == { <<"h">>, <<"h", "-", "h">> }
Paths == { <<"/">> }

\* every argument tuple over the input sets (the pure functions are checked on all)
AllRequests ==
    [remote : Remotes, host : Hosts, path : Paths, tls : BOOLEAN, insecure : BOOLEAN]

\* the argument tuples the host threads call with: one configuration, the same
\* with insecure set, and one that differs from the first in remote and host
Requests ==
    { q \in AllRequests :
        /\ q.tls
        /\ \/ q.remote = <<"r", "-", "h">> /\ q.host = <<"h">>
           \/ q.remote = <<"r">> /\ q.host = <<"h", "-", "h">> /\ ~q.insecure }

NoRequest ==
    [remote |-> <<>>, host |-> <<>>, path |-> <<>>, tls |-> FALSE, insecure |-> FALSE]

(***************************************************************************)
(* Pure functions.                                                         *)
(***************************************************************************)
\* Display of a bool, as format!("{}") prints it
Display(b) ==
    IF b THEN <<"true">> ELSE <<"false">>

\* mutant: the insecure flag is left out of the key
format_config_key_no_insecure(remote, host, path, tls, insecure) ==
    remote \o <<"-">> \o host \o <<"-">> \o path \o <<"-">> \o Display(tls)

\* format!("{}-{}-{}-{}-{}", remote, host, path, tls, insecure)
format_config_key(remote, host, path, tls, insecure) ==
    remote \o <<"-">> \o host \o <<"-">> \o path \o <<"-">> \o Display(tls)
           \o <<"-">> \o Display(insecure)

KeyOf(q) == format_config_key(q.remote, q.host, q.path, q.tls, q.insecure)

\* create_net_conf: UDP on, TCP not disabled
create_net_conf == [use_udp |-> TRUE, no_tcp |-> FALSE]

localhost == <<"127.0.0.1">>

\* format!("{}:{}", localhost, port); a port number is kept as one element
format_addr(port) == localhost \o <<":", port>>

\* the port of a listen address built by format_addr
PortOf(addr) == addr[Len(addr)]

WsHost == <<"ws;host=">>
SemiPath == <<";path=">>
TlsSni == <<";tls;sni=">>
SemiInsecure == <<";insecure">>

\* mutant: the SNI is taken from the path and ";insecure" comes with any TLS
create_endpoint_conf_swapped(remote, listen_addr_, net, path, tls, insecure) ==
    LET remote_transport ==
            IF tls
            THEN WsHost \o remote \o SemiPath \o path \o TlsSni \o path \o SemiInsecure
            ELSE WsHost \o remote \o SemiPath \o path
    IN  [listen |-> listen_addr_,
         remote |-> remote,
         remote_transport |-> remote_transport,
         network |-> net]

\* create_endpoint_conf
create_endpoint_conf(remote, listen_addr_, net, path, tls, insecure) ==
    LET remote_transport ==
            IF tls
            THEN IF insecure
                 THEN WsHost \o remote \o SemiPath \o path \o TlsSni \o remote
                             \o SemiInsecure
                 ELSE WsHost \o remote \o SemiPath \o path \o TlsSni \o remote
            ELSE WsHost \o remote \o SemiPath \o path
    IN  [listen |-> listen_addr_,
         remote |-> remote,
         remote_transport |-> remote_transport,
         network |-> net]

\* Config::build on an EndpointConf (crate::conf, not in src/): the endpoint with
\* its two worker switches taken from the network options
Config_build(conf) ==
    [endpoint |-> conf, no_tcp |-> conf.network.no_tcp, use_udp |-> conf.network.use_udp]

\* build_endpoints: vec![endpoint].into_iter().map(Config::build).collect()
build_endpoints(conf) == << Config_build(conf) >>

\* mutant: the TCP worker is spawned only next to a UDP worker
TasksOfTcpWithUdp(info) ==
    IF info.use_udp
    THEN << [kind |-> "udp", listen |-> info.endpoint.listen] >>
         \o (IF ~info.no_tcp THEN << [kind |-> "tcp", listen |-> info.endpoint.listen] >>
             ELSE << >>)
    ELSE << >>

\* the tasks `run` spawns for one endpoint: UDP first, then TCP
TasksOf(info) ==
    (IF info.use_udp THEN << [kind |-> "udp", listen |-> info.endpoint.listen] >>
     ELSE << >>)
    \o
    (IF ~info.no_tcp THEN << [kind |-> "tcp", listen |-> info.endpoint.listen] >>
     ELSE << >>)

\* endpoints.into_iter().flat_map(...).collect()
RECURSIVE SpawnWorkers(_)
SpawnWorkers(eps) ==
    IF eps = << >> THEN << >> ELSE TasksOf(Head(eps)) \o SpawnWorkers(Tail(eps))

(***************************************************************************)
(* State.                                                                  *)
(***************************************************************************)
VARIABLES
    pc,            \* per thread: where its current call stands
    op,            \* per thread: "start", "stop" or "none"
    req,           \* per thread: the converted arguments of its call
    config_key,    \* per thread: local config_key
    listen_addr,   \* per thread: local listen_addr of a provisioning start
    endpoint_conf, \* per thread: local endpoint_conf, until build_endpoints takes it
    endpoints,     \* per thread: local endpoints of a provisioning start
    runtime,       \* per thread: local runtime (index into runtimes), 0 = none
    RUNTIME_MAP,   \* config key -> [rt, count, addr]
    mutex,         \* holder of RUNTIME_MAP's lock, 0 = free
    poisoned,      \* the lock's poison flag
    LOG_INIT,      \* Once: "new", "running", "done", "poisoned"
    DNS_INIT,      \* Once: "new", "running", "done", "poisoned"
    log_runs,      \* times setup_log has been entered
    dns_runs,      \* times setup_dns has been entered
    runtimes,      \* every runtime built so far, in order of creation
    aborted,       \* the process was aborted by a panic
    calls,         \* calls issued so far
    nStart,        \* config key -> start calls completed on it
    nStop,         \* config key -> stop calls that reached the map with it
    returned,      \* config key -> the addresses start calls have returned for
                   \* the record the map holds for it
    refs,          \* config key -> start calls completed on it less stop calls
                   \* completed on it, since its record was created (0: no record)
    order          \* config key -> "starts": no stop yet; "stops": starts, then
                   \* no more stops than starts; "extra": then a stop more than
                   \* the starts; "mixed": a start after a stop (the two counts
                   \* are kept only in "starts" and "stops")

locals == <<op, req, config_key, listen_addr, endpoint_conf, endpoints, runtime>>
once == <<LOG_INIT, DNS_INIT, log_runs, dns_runs>>
reg == <<RUNTIME_MAP, mutex, poisoned>>
hist == <<calls, nStart, nStop, order, returned, refs>>
vars == <<pc, locals, once, reg, runtimes, aborted, hist>>

Keys == { KeyOf(q) : q \in Requests }

Init ==
    /\ pc = [t \in Threads |-> "idle"]
    /\ op = [t \in Threads |-> "none"]
    /\ req = [t \in Threads |-> NoRequest]
    /\ config_key = [t \in Threads |-> << >>]
    /\ listen_addr = [t \in Threads |-> << >>]
    /\ endpoint_conf = [t \in Threads |-> << >>]
    /\ endpoints = [t \in Threads |-> << >>]
    /\ runtime = [t \in Threads |-> 0]
    /\ RUNTIME_MAP = << >>
    /\ mutex = 0
    /\ poisoned = FALSE
    /\ LOG_INIT = "new"
    /\ DNS_INIT = "new"
    /\ log_runs = 0
    /\ dns_runs = 0
    /\ runtimes = << >>
    /\ aborted = FALSE
    /\ calls = 0
    /\ nStart = [k \in Keys |-> 0]
    /\ nStop = [k \in Keys |-> 0]
    /\ order = [k \in Keys |-> "starts"]
    /\ returned = [k \in Keys |-> {}]
    /\ refs = [k \in Keys |-> 0]


(***************************************************************************)
(* Helpers on the state.                                                   *)
(***************************************************************************)
\* thread t stands at label l and the process is alive
At(t, l) == ~aborted /\ pc[t] = l

\* thread t is between two calls
Free(t) == ~aborted /\ pc[t] = "idle"

\* the map with key k bound to record r
MapInsert(m, k, r) == [x \in DOMAIN m \cup {k} |-> IF x = k THEN r ELSE m[x]]

\* mutant: the key stays in the map
MapRemoveNothing(m, k) == m

\* the map without key k
MapRemove(m, k) == [x \in DOMAIN m \ {k} |-> m[x]]

\* the TCP ports held by a listening worker
TcpBound ==
    UNION { { PortOf(runtimes[i].workers[w].listen) :
                w \in { x \in DOMAIN runtimes[i].workers :
                           /\ runtimes[i].workers[x].kind = "tcp"
                           /\ runtimes[i].workers[x].st = "serving" } } :
            i \in DOMAIN runtimes }

\* record one more completed start on key k
NoteStart(k) ==
    IF order[k] = "starts"
    THEN /\ nStart' = [nStart EXCEPT ![k] = @ + 1]
         /\ UNCHANGED <<nStop, order>>
    ELSE /\ order' = [order EXCEPT ![k] = "mixed"]
         /\ nStart' = [nStart EXCEPT ![k] = 0]
         /\ nStop' = [nStop EXCEPT ![k] = 0]

\* record one more stop that reached the map with key k
NoteStop(k) ==
    IF order[k] \in {"starts", "stops"} /\ nStop[k] < nStart[k]
    THEN /\ nStop' = [nStop EXCEPT ![k] = @ + 1]
         /\ order' = [order EXCEPT ![k] = "stops"]
         /\ UNCHANGED nStart
    ELSE /\ order' = [order EXCEPT ![k] = IF @ = "mixed" THEN "mixed" ELSE "extra"]
         /\ nStart' = [nStart EXCEPT ![k] = 0]
         /\ nStop' = [nStop EXCEPT ![k] = 0]

(***************************************************************************)
(* start_realm and stop_realm, up to the lock.                             *)
(***************************************************************************)
\* mutant: start_realm does not call initialize_once
StartCallNoInit(t) ==
    /\ Free(t)
    /\ calls < MaxCalls
    /\ calls' = calls + 1
    /\ pc' = [pc EXCEPT ![t] = "convert"]
    /\ op' = [op EXCEPT ![t] = "start"]
    /\ UNCHANGED <<req, config_key, listen_addr, endpoint_conf, endpoints, runtime, once, reg,
                   runtimes, aborted, nStart, nStop, order, returned, refs>>

\* a host thread enters start_realm. Once both Once cells are done they stay
\* done and initialize_once returns without effect: the call is then at line 55.
StartCall(t) ==
    /\ Free(t)
    /\ calls < MaxCalls
    /\ calls' = calls + 1
    /\ pc' = [pc EXCEPT ![t] = IF LOG_INIT = "done" /\ DNS_INIT = "done"
                                THEN "convert" ELSE "log_once"]
    /\ op' = [op EXCEPT ![t] = "start"]
    /\ UNCHANGED <<req, config_key, listen_addr, endpoint_conf, endpoints, runtime, once, reg,
                   runtimes, aborted, nStart, nStop, order, returned, refs>>

\* a host thread enters stop_realm (no initialize_once there)
StopCall(t) ==
    /\ Free(t)
    /\ calls < MaxCalls
    /\ calls' = calls + 1
    /\ pc' = [pc EXCEPT ![t] = "convert"]
    /\ op' = [op EXCEPT ![t] = "stop"]
    /\ UNCHANGED <<req, config_key, listen_addr, endpoint_conf, endpoints, runtime, once, reg,
                   runtimes, aborted, nStart, nStop, order, returned, refs>>

\* mutant: a caller that finds the closure running runs it too
OnceRunsRacy(cell) == cell \in {"new", "running"}

\* Once::call_once: the caller that finds the cell new runs the closure
OnceRuns(cell) == cell = "new"

\* Once::call_once: a caller that finds the closure running waits for it
OnceWaits(cell) == cell = "running"

\* LOG_INIT.call_once: the first caller runs the closure, a caller that finds it
\* running waits, a caller that finds it done goes on, a poisoned Once panics
LogCallOnce(t) ==
    /\ At(t, "log_once")
    /\ OnceRuns(LOG_INIT) \/ ~OnceWaits(LOG_INIT)
    /\ LOG_INIT' = IF OnceRuns(LOG_INIT) THEN "running" ELSE LOG_INIT
    /\ pc' = [pc EXCEPT ![t] = CASE OnceRuns(LOG_INIT) -> "setup_log"
                                 [] LOG_INIT = "done" -> "dns_once"
                                 [] OTHER -> "panic"]
    /\ UNCHANGED <<locals, DNS_INIT, log_runs, dns_runs, reg, runtimes, aborted, hist>>

\* setup_log: applies the logger, or panics ("Failed to setup logger")
setup_log(t) ==
    /\ At(t, "setup_log")
    /\ log_runs' = log_runs + 1
    /\ \/ /\ LOG_INIT' = "done"
          /\ pc' = [pc EXCEPT ![t] = "dns_once"]
       \/ /\ LOG_INIT' = "poisoned"
          /\ pc' = [pc EXCEPT ![t] = "panic"]
    /\ UNCHANGED <<locals, DNS_INIT, dns_runs, reg, runtimes, aborted, hist>>

\* DNS_INIT.call_once
DnsCallOnce(t) ==
    /\ At(t, "dns_once")
    /\ OnceRuns(DNS_INIT) \/ ~OnceWaits(DNS_INIT)
    /\ DNS_INIT' = IF OnceRuns(DNS_INIT) THEN "running" ELSE DNS_INIT
    /\ pc' = [pc EXCEPT ![t] = CASE OnceRuns(DNS_INIT) -> "setup_dns"
                                 [] DNS_INIT = "done" -> "convert"
                                 [] OTHER -> "panic"]
    /\ UNCHANGED <<locals, LOG_INIT, log_runs, dns_runs, reg, runtimes, aborted, hist>>

\* setup_dns
setup_dns(t) ==
    /\ At(t, "setup_dns")
    /\ dns_runs' = dns_runs + 1
    /\ DNS_INIT' = "done"
    /\ pc' = [pc EXCEPT ![t] = "convert"]
    /\ UNCHANGED <<locals, LOG_INIT, log_runs, reg, runtimes, aborted, hist>>

\* mutant: the strings are converted under the lock
ConvertInvalidLocked(t) ==
    /\ At(t, "convert")
    /\ mutex = 0
    /\ mutex' = t
    /\ pc' = [pc EXCEPT ![t] = "panic"]
    /\ UNCHANGED <<locals, once, RUNTIME_MAP, poisoned, runtimes, aborted, hist>>

\* convert_cstr_to_str on a string that is not valid UTF-8: expect() panics
ConvertInvalid(t) ==
    /\ At(t, "convert")
    /\ pc' = [pc EXCEPT ![t] = "panic"]
    /\ UNCHANGED <<locals, once, reg, runtimes, aborted, hist>>

\* mutant: the lock is taken without waiting for its holder
ConvertLockNoWait(t) ==
    /\ At(t, "convert")
    /\ ~poisoned
    /\ \E q \in Requests :
          /\ req' = [req EXCEPT ![t] = q]
          /\ config_key' = [config_key EXCEPT ![t] =
                 format_config_key(q.remote, q.host, q.path, q.tls, q.insecure)]
    /\ mutex' = t
    /\ pc' = [pc EXCEPT ![t] = "locked"]
    /\ UNCHANGED <<op, listen_addr, endpoint_conf, endpoints, runtime, once, RUNTIME_MAP,
                   poisoned, runtimes, aborted, hist>>

\* lines 55-59 and 97-101: convert_cstr_to_str on three valid strings, format! of
\* the config key, RUNTIME_MAP.lock(). The conversion and the formatting read
\* and write only the call's own data, so they are one step with the
\* acquisition of the lock, which waits until the lock is free.
ConvertLock(t) ==
    /\ At(t, "convert")
    /\ mutex = 0
    /\ ~poisoned
    /\ \E q \in Requests :
          /\ req' = [req EXCEPT ![t] = q]
          /\ config_key' = [config_key EXCEPT ![t] =
                 format_config_key(q.remote, q.host, q.path, q.tls, q.insecure)]
    /\ mutex' = t
    /\ pc' = [pc EXCEPT ![t] = "locked"]
    /\ UNCHANGED <<op, listen_addr, endpoint_conf, endpoints, runtime, once, RUNTIME_MAP,
                   poisoned, runtimes, aborted, hist>>

\* RUNTIME_MAP.lock().expect(..) on a poisoned lock: the guard comes back inside
\* an error, expect() panics and the guard is dropped
LockPoisoned(t) ==
    /\ At(t, "convert")
    /\ mutex = 0
    /\ poisoned
    /\ pc' = [pc EXCEPT ![t] = "panic"]
    /\ UNCHANGED <<locals, once, reg, runtimes, aborted, hist>>

\* the locals of a call that has ended
Leave(t) ==
    /\ op' = [op EXCEPT ![t] = "none"]
    /\ req' = [req EXCEPT ![t] = NoRequest]
    /\ config_key' = [config_key EXCEPT ![t] = << >>]
    /\ listen_addr' = [listen_addr EXCEPT ![t] = << >>]
    /\ endpoint_conf' = [endpoint_conf EXCEPT ![t] = << >>]
    /\ endpoints' = [endpoints EXCEPT ![t] = << >>]
    /\ runtime' = [runtime EXCEPT ![t] = 0]
    /\ pc' = [pc EXCEPT ![t] = "idle"]

(***************************************************************************)
(* start_realm under the lock.                                             *)
(***************************************************************************)
\* start_realm returns addr to a caller that shares the record of key k
Return(k, addr) == returned' = [returned EXCEPT ![k] = @ \cup {addr}]

\* mutant: the count is raised twice
IncrementTwice(count) == count + 2

\* line 63: *count += 1
Increment(count) == count + 1

\* lines 62-65: a record exists: count += 1, return its address (guard dropped)
StartHit(t) ==
    /\ At(t, "locked")
    /\ op[t] = "start"
    /\ config_key[t] \in DOMAIN RUNTIME_MAP
    /\ RUNTIME_MAP' = [RUNTIME_MAP EXCEPT ![config_key[t]].count = Increment(@)]
    /\ Return(config_key[t], RUNTIME_MAP[config_key[t]].addr)
    /\ mutex' = 0
    /\ Leave(t)
    /\ NoteStart(config_key[t])
    /\ refs' = [refs EXCEPT ![config_key[t]] = @ + 1]
    /\ UNCHANGED <<once, poisoned, runtimes, aborted, calls>>

\* bind_to_random_port: the OS picks any port no listener holds; the listener is
\* dropped at once, so the port is free again when the function returns
bind_to_random_port(port) ==
    /\ port \in Ports \ TcpBound
    /\ UNCHANGED runtimes

\* lines 68, 74, 77: the endpoint infos start_realm builds for its arguments
make_endpoints(q, addr) ==
    build_endpoints(
        create_endpoint_conf(q.remote, addr, create_net_conf, q.path, q.tls, q.insecure))

\* lines 67-77: no record: net conf, port, endpoint conf, endpoint infos
StartBind(t) ==
    /\ At(t, "locked")
    /\ op[t] = "start"
    /\ config_key[t] \notin DOMAIN RUNTIME_MAP
    /\ \E port \in Ports :
          /\ bind_to_random_port(port)
          /\ listen_addr' = [listen_addr EXCEPT ![t] = format_addr(port)]
          /\ endpoints' = [endpoints EXCEPT ![t] = make_endpoints(req[t], format_addr(port))]
    /\ pc' = [pc EXCEPT ![t] = "runtime"]
    /\ UNCHANGED <<op, req, config_key, endpoint_conf, runtime, once, reg, aborted, hist>>

\* bind_to_random_port panics ("Failed to bind to a random port")
StartBindFail(t) ==
    /\ At(t, "locked")
    /\ op[t] = "start"
    /\ config_key[t] \notin DOMAIN RUNTIME_MAP
    /\ pc' = [pc EXCEPT ![t] = "panic"]
    /\ UNCHANGED <<locals, once, reg, runtimes, aborted, hist>>

\* a runtime just built, with the orchestrator task spawned onto it
NewRuntime(eps, key, q) ==
    [state |-> "live", orch |-> "spawned", endpoints |-> eps, workers |-> << >>,
     key |-> key, req |-> q]

\* lines 80-81: create_runtime(), runtime.spawn(run(endpoints))
StartCreateRuntime(t) ==
    /\ At(t, "runtime")
    /\ runtimes' = Append(runtimes, NewRuntime(endpoints[t], config_key[t], req[t]))
    /\ runtime' = [runtime EXCEPT ![t] = Len(runtimes) + 1]
    /\ endpoints' = [endpoints EXCEPT ![t] = << >>]
    /\ pc' = [pc EXCEPT ![t] = "insert"]
    /\ UNCHANGED <<op, req, config_key, listen_addr, endpoint_conf, once, reg, aborted, hist>>

\* mutant: the failure comes after the runtime was built and run spawned on it
StartCreateRuntimeFailLeaks(t) ==
    /\ At(t, "runtime")
    /\ runtimes' = Append(runtimes, NewRuntime(endpoints[t], config_key[t], req[t]))
    /\ pc' = [pc EXCEPT ![t] = "panic"]
    /\ UNCHANGED <<locals, once, reg, aborted, hist>>

\* create_runtime panics ("Failed to build ... runtime")
StartCreateRuntimeFail(t) ==
    /\ At(t, "runtime")
    /\ pc' = [pc EXCEPT ![t] = "panic"]
    /\ UNCHANGED <<locals, once, reg, runtimes, aborted, hist>>

\* mutant: the first reference is not counted
NewRecordZero(rt, addr) == [rt |-> rt, count |-> 0, addr |-> addr]

\* the record start_realm inserts
NewRecord(rt, addr) == [rt |-> rt, count |-> 1, addr |-> addr]

\* lines 84-85: insert (runtime, 1, listen_addr), return listen_addr
StartInsert(t) ==
    /\ At(t, "insert")
    /\ RUNTIME_MAP' = MapInsert(RUNTIME_MAP, config_key[t],
                                NewRecord(runtime[t], listen_addr[t]))
    /\ returned' = [returned EXCEPT ![config_key[t]] = {listen_addr[t]}]
    /\ mutex' = 0
    /\ Leave(t)
    /\ NoteStart(config_key[t])
    /\ refs' = [refs EXCEPT ![config_key[t]] = 1]
    /\ UNCHANGED <<once, poisoned, runtimes, aborted, calls>>

(***************************************************************************)
(* stop_realm under the lock.                                              *)
(***************************************************************************)
\* mutant: the runtime is forgotten, not shut down
shutdown_forgotten(rts, rt) == rts

\* Runtime::shutdown_background: the runtime is told to shut down; the call does
\* not wait for the spawned tasks to stop
shutdown_background(rts, rt) == [rts EXCEPT ![rt].state = "shutdown"]

\* mutant: the count is not lowered
DecrementNone(count) == count

\* line 105: *count -= 1
Decrement(count) == count - 1

\* mutant: the record goes when one reference is still held
IsZeroOrOne(count) == count <= 1

\* line 106: *count == 0
IsZero(count) == count = 0

\* lines 104-112: a record exists: count -= 1; at 0 the record is removed and its
\* runtime shut down
StopFound(t) ==
    /\ At(t, "locked")
    /\ op[t] = "stop"
    /\ config_key[t] \in DOMAIN RUNTIME_MAP
    /\ LET rec == RUNTIME_MAP[config_key[t]]
           count == Decrement(rec.count)
       IN  IF IsZero(count)
           THEN /\ RUNTIME_MAP' = MapRemove(RUNTIME_MAP, config_key[t])
                /\ runtimes' = shutdown_background(runtimes, rec.rt)
                /\ returned' = [returned EXCEPT ![config_key[t]] = {}]
           ELSE /\ RUNTIME_MAP' = [RUNTIME_MAP EXCEPT ![config_key[t]].count = count]
                /\ UNCHANGED <<runtimes, returned>>
    /\ mutex' = 0
    /\ Leave(t)
    /\ NoteStop(config_key[t])
    /\ refs' = [refs EXCEPT ![config_key[t]] = @ - 1]
    /\ UNCHANGED <<once, poisoned, aborted, calls>>

\* mutant: a missing record is a panic
StopNotFoundPanics(t) ==
    /\ At(t, "locked")
    /\ op[t] = "stop"
    /\ config_key[t] \notin DOMAIN RUNTIME_MAP
    /\ pc' = [pc EXCEPT ![t] = "panic"]
    /\ UNCHANGED <<locals, once, reg, runtimes, aborted, hist>>

\* lines 113-115: no record: a warning is logged
StopNotFound(t) ==
    /\ At(t, "locked")
    /\ op[t] = "stop"
    /\ config_key[t] \notin DOMAIN RUNTIME_MAP
    /\ mutex' = 0
    /\ Leave(t)
    /\ NoteStop(config_key[t])
    /\ UNCHANGED <<once, RUNTIME_MAP, poisoned, runtimes, aborted, calls, returned, refs>>

(***************************************************************************)
(* A panic inside an extern "C" function: the process aborts, or the panic *)
(* unwinds out of the call (which poisons the lock if the thread holds it).*)
(***************************************************************************)
PanicAbort(t) ==
    /\ At(t, "panic")
    /\ aborted' = TRUE
    /\ UNCHANGED <<pc, locals, once, reg, runtimes, hist>>

PanicUnwind(t) ==
    /\ At(t, "panic")
    /\ Leave(t)
    /\ IF mutex = t
       THEN mutex' = 0 /\ poisoned' = TRUE
       ELSE UNCHANGED <<mutex, poisoned>>
    /\ UNCHANGED <<once, RUNTIME_MAP, runtimes, aborted, hist>>

(***************************************************************************)
(* The tasks of a runtime.  A worker is "serving", "exited" (it returned)  *)
(* or gone with its runtime.                                               *)
(***************************************************************************)
\* runtime i schedules its tasks
Scheduling(i) == ~aborted /\ i \in DOMAIN runtimes /\ runtimes[i].state = "live"

\* the first poll of a worker. run_udp serves. run_tcp binds the listen
\* address: it serves if no listener holds the port, and returns an error if
\* one does. tasks are polled left to right, so an earlier listener on the same
\* address wins.
RECURSIVE FirstPoll(_, _)
FirstPoll(tasks, taken) ==
    IF tasks = << >> THEN << >>
    ELSE LET w == Head(tasks)
             fails == w.kind = "tcp" /\ PortOf(w.listen) \in taken
             st == IF fails THEN "exited" ELSE "serving"
             more == IF w.kind = "tcp" /\ ~fails THEN {PortOf(w.listen)} ELSE {}
         IN  << [kind |-> w.kind, listen |-> w.listen, st |-> st] >>
             \o FirstPoll(Tail(tasks), taken \cup more)

\* run, lines 251-270: the orchestrator's first poll spawns the workers (their
\* own first poll is part of the step) and polls join_all, which is ready at
\* once when there is no worker
run_spawn(i) ==
    /\ Scheduling(i)
    /\ runtimes[i].orch = "spawned"
    /\ runtimes' = [runtimes EXCEPT
           ![i].orch = IF SpawnWorkers(runtimes[i].endpoints) = << >>
                       THEN "done" ELSE "joining",
           ![i].workers = FirstPoll(SpawnWorkers(runtimes[i].endpoints), TcpBound)]
    /\ UNCHANGED <<pc, locals, once, reg, aborted, hist>>

\* a worker returns by itself (an error of the relay engine); a TCP worker's
\* listener is closed with it
worker_exit(i, w) ==
    /\ Scheduling(i)
    /\ w \in DOMAIN runtimes[i].workers
    /\ runtimes[i].workers[w].st = "serving"
    /\ runtimes' = [runtimes EXCEPT ![i].workers[w].st = "exited"]
    /\ UNCHANGED <<pc, locals, once, reg, aborted, hist>>

\* mutant: the orchestrator takes its instance's record with it
run_join_removes(i) ==
    /\ Scheduling(i)
    /\ runtimes[i].orch = "joining"
    /\ \A w \in DOMAIN runtimes[i].workers : runtimes[i].workers[w].st = "exited"
    /\ runtimes' = [runtimes EXCEPT ![i].orch = "done"]
    /\ RUNTIME_MAP' = [k \in {x \in DOMAIN RUNTIME_MAP : RUNTIME_MAP[x].rt # i} |->
                          RUNTIME_MAP[k]]
    /\ UNCHANGED <<pc, locals, once, mutex, poisoned, aborted, hist>>

\* mutant: the orchestrator completes with its first finished worker
run_join_any(i) ==
    /\ Scheduling(i)
    /\ runtimes[i].orch = "joining"
    /\ \E w \in DOMAIN runtimes[i].workers : runtimes[i].workers[w].st = "exited"
    /\ runtimes' = [runtimes EXCEPT ![i].orch = "done"]
    /\ UNCHANGED <<pc, locals, once, reg, aborted, hist>>

\* run, line 270: join_all(workers).await completes when every worker has
run_join(i) ==
    /\ Scheduling(i)
    /\ runtimes[i].orch = "joining"
    /\ \A w \in DOMAIN runtimes[i].workers : runtimes[i].workers[w].st = "exited"
    /\ runtimes' = [runtimes EXCEPT ![i].orch = "done"]
    /\ UNCHANGED <<pc, locals, once, reg, aborted, hist>>

\* a runtime that was told to shut down drops its tasks, finished or not, and
\* their sockets with them
runtime_drop(i) ==
    /\ ~aborted
    /\ i \in DOMAIN runtimes
    /\ runtimes[i].state = "shutdown"
    /\ runtimes' = [runtimes EXCEPT ![i].state = "terminated",
                                    ![i].orch = "dropped",
                                    ![i].workers = << >>]
    /\ UNCHANGED <<pc, locals, once, reg, aborted, hist>>

(***************************************************************************)
(* The specification.                                                      *)
(***************************************************************************)
Next ==
    \/ \E t \in Threads : StartCall(t)
    \/ \E t \in Threads : StopCall(t)
    \/ \E t \in Threads : LogCallOnce(t)
    \/ \E t \in Threads : setup_log(t)
    \/ \E t \in Threads : DnsCallOnce(t)
    \/ \E t \in Threads : setup_dns(t)
    \/ \E t \in Threads : ConvertInvalid(t)
    \/ \E t \in Threads : ConvertLock(t)
    \/ \E t \in Threads : LockPoisoned(t)
    \/ \E t \in Threads : StartHit(t)
    \/ \E t \in Threads : StartBind(t)
    \/ \E t \in Threads : StartBindFail(t)
    \/ \E t \in Threads : StartCreateRuntime(t)
    \/ \E t \in Threads : StartCreateRuntimeFail(t)
    \/ \E t \in Threads : StartInsert(t)
    \/ \E t \in Threads : StopFound(t)
    \/ \E t \in Threads : StopNotFound(t)
    \/ \E t \in Threads : PanicAbort(t)
    \/ \E t \in Threads : PanicUnwind(t)
    \/ \E i \in 1..MaxCalls : run_spawn(i)
    \/ \E i \in 1..MaxCalls, w \in 1..2 : worker_exit(i, w)
    \/ \E i \in 1..MaxCalls : run_join(i)
    \/ \E i \in 1..MaxCalls : runtime_drop(i)

Spec == Init /\ [][Next]_vars

(***************************************************************************)
(* The pure functions on every argument tuple: each thread holds one tuple *)
(* from the start, formats its config key and builds its endpoint infos.   *)
(***************************************************************************)
InitPure ==
    /\ pc = [t \in Threads |-> "args"]
    /\ op = [t \in Threads |-> "start"]
    /\ req \in [Threads -> AllRequests]
    /\ config_key = [t \in Threads |-> << >>]
    /\ listen_addr = [t \in Threads |-> << >>]
    /\ endpoint_conf = [t \in Threads |-> << >>]
    /\ endpoints = [t \in Threads |-> << >>]
    /\ runtime = [t \in Threads |-> 0]
    /\ RUNTIME_MAP = << >>
    /\ mutex = 0
    /\ poisoned = FALSE
    /\ LOG_INIT = "done"
    /\ DNS_INIT = "done"
    /\ log_runs = 1
    /\ dns_runs = 1
    /\ runtimes = << >>
    /\ aborted = FALSE
    /\ calls = 0
    /\ nStart = [k \in Keys |-> 0]
    /\ nStop = [k \in Keys |-> 0]
    /\ order = [k \in Keys |-> "starts"]
    /\ returned = [k \in Keys |-> {}]
    /\ refs = [k \in Keys |-> 0]

\* line 58
PureKey(t) ==
    /\ pc[t] = "args"
    /\ config_key' = [config_key EXCEPT ![t] =
           format_config_key(req[t].remote, req[t].host, req[t].path,
                             req[t].tls, req[t].insecure)]
    /\ pc' = [pc EXCEPT ![t] = "keyed"]
    /\ UNCHANGED <<op, req, listen_addr, endpoint_conf, endpoints, runtime, once, reg, runtimes,
                   aborted, hist>>

\* lines 68-74, for any port
PureEndpointConf(t) ==
    /\ pc[t] = "keyed"
    /\ \E port \in Ports :
          /\ listen_addr' = [listen_addr EXCEPT ![t] = format_addr(port)]
          /\ endpoint_conf' = [endpoint_conf EXCEPT ![t] =
                 create_endpoint_conf(req[t].remote, format_addr(port), create_net_conf,
                                      req[t].path, req[t].tls, req[t].insecure)]
    /\ pc' = [pc EXCEPT ![t] = "conf"]
    /\ UNCHANGED <<op, req, config_key, endpoints, runtime, once, reg, runtimes,
                   aborted, hist>>

\* line 77: build_endpoints takes the endpoint conf
PureEndpoints(t) ==
    /\ pc[t] = "conf"
    /\ endpoints' = [endpoints EXCEPT ![t] = build_endpoints(endpoint_conf[t])]
    /\ endpoint_conf' = [endpoint_conf EXCEPT ![t] = << >>]
    /\ pc' = [pc EXCEPT ![t] = "built"]
    /\ UNCHANGED <<op, req, config_key, listen_addr, runtime, once, reg, runtimes,
                   aborted, hist>>

NextPure ==
    \/ \E t \in Threads : PureKey(t)
    \/ \E t \in Threads : PureEndpointConf(t)
    \/ \E t \in Threads : PureEndpoints(t)

SpecPure == InitPure /\ [][NextPure]_vars

(***************************************************************************)
(* The orchestrator on every vector of endpoint infos: one runtime holds   *)
(* run(endpoints), for up to MaxEndpoints endpoints with any network       *)
(* options, and schedules it and its workers.                              *)
(***************************************************************************)
\* the endpoint infos run can be given, as far as it reads them
Infos ==
    { [endpoint |-> [listen |-> format_addr(p)], no_tcp |-> n, use_udp |-> u] :
          p \in Ports, n \in BOOLEAN, u \in BOOLEAN }

EndpointVecs == UNION { [1..n -> Infos] : n \in 0..MaxEndpoints }

InitRun ==
    /\ pc = [t \in Threads |-> "idle"]
    /\ op = [t \in Threads |-> "none"]
    /\ req = [t \in Threads |-> NoRequest]
    /\ config_key = [t \in Threads |-> << >>]
    /\ listen_addr = [t \in Threads |-> << >>]
    /\ endpoint_conf = [t \in Threads |-> << >>]
    /\ endpoints = [t \in Threads |-> << >>]
    /\ runtime = [t \in Threads |-> 0]
    /\ RUNTIME_MAP = << >>
    /\ mutex = 0
    /\ poisoned = FALSE
    /\ LOG_INIT = "done"
    /\ DNS_INIT = "done"
    /\ log_runs = 1
    /\ dns_runs = 1
    /\ \E eps \in EndpointVecs : runtimes = << NewRuntime(eps, << >>, NoRequest) >>
    /\ aborted = FALSE
    /\ calls = 0
    /\ nStart = [k \in Keys |-> 0]
    /\ nStop = [k \in Keys |-> 0]
    /\ order = [k \in Keys |-> "starts"]
    /\ returned = [k \in Keys |-> {}]
    /\ refs = [k \in Keys |-> 0]

NextRun ==
    \/ \E i \in DOMAIN runtimes : run_spawn(i)
    \/ \E i \in DOMAIN runtimes, w \in 1..(2 * MaxEndpoints) : worker_exit(i, w)
    \/ \E i \in DOMAIN runtimes : run_join(i)

SpecRun == InitRun /\ [][NextRun]_vars

(***************************************************************************)
(* Properties.                                                             *)
(***************************************************************************)
\* the runtimes built for config key k
RuntimesOf(k) == { i \in DOMAIN runtimes : runtimes[i].key = k }

\* thread t, holding the lock in a stop (op = "stop") or a start, takes its step
Steps(t, o) == pc[t] = "locked" /\ op[t] = o /\ pc'[t] # pc[t]

\* C1 (dedup): once N >= 1 start calls on a key have returned and no stop has
\* come for it, the map holds one record for the key, one runtime was built for
\* it, the record's count is N and every call was given the record's address.
C1_Dedup ==
    \A k \in Keys :
        (order[k] = "starts" /\ nStart[k] >= 1) =>
            /\ k \in DOMAIN RUNTIME_MAP
            /\ RUNTIME_MAP[k].count = nStart[k]
            /\ RuntimesOf(k) = {RUNTIME_MAP[k].rt}
            /\ returned[k] = {RUNTIME_MAP[k].addr}

C1_Witness ==
    \E k \in Keys :
        /\ order[k] = "starts"
        /\ nStart[k] = 2
        /\ k \in DOMAIN RUNTIME_MAP
        /\ \A t \in Threads : pc[t] = "idle"

\* N starts, then N stops, on key k
Balanced(k) == order[k] = "stops" /\ nStart[k] = nStop[k]

\* the runtimes built for key k by the calls that have returned (a later start
\* that has not returned yet holds its runtime in its local)
ReturnedRuntimesOf(k) == RuntimesOf(k) \ { runtime[t] : t \in Threads }

C3_TeardownAtZero ==
    [][\A t \in Threads :
          (Steps(t, "stop") /\ config_key[t] \in DOMAIN RUNTIME_MAP) =>
              LET k == config_key[t]
                  rec == RUNTIME_MAP[k]
              IN  IF rec.count - 1 = 0
                  THEN /\ k \notin DOMAIN RUNTIME_MAP'
                       /\ runtimes[rec.rt].state = "live"
                       /\ runtimes'[rec.rt].state = "shutdown"
                  ELSE /\ k \in DOMAIN RUNTIME_MAP'
                       /\ RUNTIME_MAP'[k] = [rec EXCEPT !.count = rec.count - 1]
                       /\ runtimes[rec.rt].state = "live"
                       /\ runtimes' = runtimes]_vars

C3_Witness ==
    \E k \in Keys :
        /\ order[k] = "stops"
        /\ nStart[k] = 2
        /\ nStop[k] = 1
        /\ k \in DOMAIN RUNTIME_MAP
        /\ RUNTIME_MAP[k].count = 1
        /\ runtimes[RUNTIME_MAP[k].rt].state = "live"

\* C4 (idempotent stop): a stop on a key with no record returns without a
\* panic and leaves the map, every runtime and the lock as they were.
C4_IdempotentStop ==
    [][\A t \in Threads :
          (Steps(t, "stop") /\ config_key[t] \notin DOMAIN RUNTIME_MAP) =>
              /\ pc'[t] = "idle"
              /\ RUNTIME_MAP' = RUNTIME_MAP
              /\ runtimes' = runtimes
              /\ mutex' = 0
              /\ poisoned' = poisoned
              /\ aborted' = aborted]_vars

C4_Witness ==
    \E k \in Keys :
        /\ order[k] = "extra"
        /\ k \notin DOMAIN RUNTIME_MAP
        /\ DOMAIN RUNTIME_MAP # {}
        /\ \A t \in Threads : pc[t] = "idle"
        /\ ~poisoned

\* C5 as claimed (key injectivity): a start that finds a record, and adds to
\* its count, was called with the 5-tuple of the start that created the record.
C5_KeyInjective ==
    \A t \in Threads :
        (pc[t] = "locked" /\ op[t] = "start" /\ config_key[t] \in DOMAIN RUNTIME_MAP) =>
            req[t] = runtimes[RUNTIME_MAP[config_key[t]].rt].req

\* two argument tuples that differ in insecure and in nothing else
InsecureTwins(q1, q2) ==
    /\ q1.insecure # q2.insecure
    /\ [q1 EXCEPT !.insecure = q2.insecure] = q2

\* the insecure flag a config key ends with
KeyInsecure(k) == k[Len(k)] = "true"

\* key k has had one start and no stop
StartedOnce(k) == order[k] = "starts" /\ nStart[k] = 1

\* C6 (isolation): two configurations that differ only in insecure have two
\* keys; when each has been started once, each has its own record with count 1
\* and its own live runtime, whatever was started or stopped on the other key;
\* and a stop with one key leaves the other's record and runtime as they were.
C6_Isolation ==
    /\ [](\A q1, q2 \in Requests :
            InsecureTwins(q1, q2) =>
                LET k1 == KeyOf(q1)
                    k2 == KeyOf(q2)
                IN  /\ k1 # k2
                    /\ StartedOnce(k1) =>
                          /\ k1 \in DOMAIN RUNTIME_MAP
                          /\ RUNTIME_MAP[k1].count = 1
                          /\ runtimes[RUNTIME_MAP[k1].rt].state = "live"
                          /\ runtimes[RUNTIME_MAP[k1].rt].req.insecure = KeyInsecure(k1)
                    /\ (StartedOnce(k1) /\ k2 \in DOMAIN RUNTIME_MAP) =>
                          RUNTIME_MAP[k1].rt # RUNTIME_MAP[k2].rt)
    /\ [][\A t \in Threads : \A k \in DOMAIN RUNTIME_MAP :
            (Steps(t, "stop") /\ k # config_key[t]) =>
                /\ k \in DOMAIN RUNTIME_MAP'
                /\ RUNTIME_MAP'[k] = RUNTIME_MAP[k]
                /\ runtimes'[RUNTIME_MAP[k].rt] = runtimes[RUNTIME_MAP[k].rt]]_vars

C6_Witness ==
    \E q1, q2 \in Requests :
        /\ InsecureTwins(q1, q2)
        /\ StartedOnce(KeyOf(q1))
        /\ order[KeyOf(q2)] = "stops"
        /\ KeyOf(q2) \notin DOMAIN RUNTIME_MAP
        /\ KeyOf(q1) \in DOMAIN RUNTIME_MAP
        /\ runtimes[RUNTIME_MAP[KeyOf(q1)].rt].state = "live"

\* C7 as claimed (address uniqueness): no two records of the map have the same
\* listen address.
C7_AddressUnique ==
    \A k1, k2 \in DOMAIN RUNTIME_MAP :
        k1 # k2 => RUNTIME_MAP[k1].addr # RUNTIME_MAP[k2].addr

\* C8 (cache hit): a start on a key with a record adds 1 to the record's count,
\* returns the record's address, and changes nothing else: no other record, no
\* runtime, no task, no local of a provisioning.
C8_CacheHit ==
    [][\A t \in Threads :
          (Steps(t, "start") /\ config_key[t] \in DOMAIN RUNTIME_MAP) =>
              LET k == config_key[t]
                  rec == RUNTIME_MAP[k]
              IN  /\ pc'[t] = "idle"
                  /\ DOMAIN RUNTIME_MAP' = DOMAIN RUNTIME_MAP
                  /\ RUNTIME_MAP'[k] = [rec EXCEPT !.count = rec.count + 1]
                  /\ \A x \in DOMAIN RUNTIME_MAP \ {k} : RUNTIME_MAP'[x] = RUNTIME_MAP[x]
                  /\ returned' = [returned EXCEPT ![k] = @ \cup {rec.addr}]
                  /\ runtimes' = runtimes
                  /\ listen_addr' = listen_addr
                  /\ endpoint_conf' = endpoint_conf
                  /\ endpoints' = endpoints
                  /\ runtime' = runtime]_vars

C8_Witness ==
    \E k \in Keys :
        /\ order[k] = "starts"
        /\ nStart[k] >= 2
        /\ k \in DOMAIN RUNTIME_MAP
        /\ Cardinality(DOMAIN RUNTIME_MAP) = 2

\* a start call of thread t is past initialize_once
PastInit(t) == op[t] = "start" /\ pc[t] \in {"convert", "locked", "runtime", "insert"}

\* C9 (exactly-once initialisation): setup_log and setup_dns are each entered
\* at most once, and each has run exactly once, to its end, when a start call
\* is past initialize_once or has returned.
C9_ExactlyOnce ==
    /\ log_runs <= 1
    /\ dns_runs <= 1
    /\ (LOG_INIT = "done") => (log_runs = 1)
    /\ (DNS_INIT = "done") => (dns_runs = 1)
    /\ \A t \in Threads :
          PastInit(t) =>
              /\ log_runs = 1 /\ LOG_INIT = "done"
              /\ dns_runs = 1 /\ DNS_INIT = "done"
    /\ \A k \in Keys :
          (k \in DOMAIN RUNTIME_MAP) => (log_runs = 1 /\ dns_runs = 1)

C9_Witness ==
    /\ \A t \in Threads : PastInit(t)
    /\ calls = 2
    /\ log_runs = 1
    /\ dns_runs = 1

\* the remote-transport descriptor the grammar gives for remote, path, tls and
\* insecure
Descriptor(remote, path, tls, insecure) ==
    CASE ~tls -> <<"ws;host=">> \o remote \o <<";path=">> \o path
      [] tls /\ ~insecure ->
            <<"ws;host=">> \o remote \o <<";path=">> \o path \o <<";tls;sni=">> \o remote
      [] tls /\ insecure ->
            <<"ws;host=">> \o remote \o <<";path=">> \o path \o <<";tls;sni=">> \o remote
                           \o <<";insecure">>

\* C10 (transport descriptor grammar): the descriptor of the endpoint built for
\* (remote, host, path, tls, insecure) is the grammar's for remote, path, tls and
\* insecure, so the same for every host.
C10_Descriptor ==
    \A t \in Threads :
        pc[t] = "conf" =>
            /\ endpoint_conf[t].remote_transport =
                   Descriptor(req[t].remote, req[t].path, req[t].tls, req[t].insecure)
            /\ \A u \in Threads :
                  (pc[u] = "conf" /\ [req[u] EXCEPT !.host = req[t].host] = req[t]) =>
                      endpoint_conf[u].remote_transport = endpoint_conf[t].remote_transport

C10_Witness ==
    \E t, u \in Threads :
        /\ pc[t] = "conf" /\ pc[u] = "conf"
        /\ req[t].tls /\ req[t].insecure
        /\ req[u].host # req[t].host
        /\ [req[u] EXCEPT !.host = req[t].host] = req[t]

\* C11 (reference-count invariant): every record of the map has a count >= 1,
\* equal to the start calls completed on its key less the stop calls completed
\* on it since the record was created; a key without a record has none left.
C11_RefCount ==
    \A k \in Keys :
        IF k \in DOMAIN RUNTIME_MAP
        THEN /\ RUNTIME_MAP[k].count >= 1
             /\ RUNTIME_MAP[k].count = refs[k]
        ELSE refs[k] = 0

\* a record that has seen two starts and a stop
C11_Witness ==
    \E k \in DOMAIN RUNTIME_MAP :
        /\ RUNTIME_MAP[k].count = 1
        /\ order[k] = "stops" /\ nStart[k] = 2 /\ nStop[k] = 1

\* thread t is inside the lookup-or-provision sequence of a start or the
\* decrement-or-remove sequence of a stop
InSection(t) == pc[t] \in {"locked", "runtime", "insert"}

\* thread t is provisioning an instance
Provisioning(t) == op[t] = "start" /\ pc[t] \in {"runtime", "insert"}

\* a runtime is built, or a runtime is told to shut down
RuntimeBuiltOrShut ==
    \/ Len(runtimes') # Len(runtimes)
    \/ \E i \in DOMAIN runtimes :
          runtimes[i].state = "live" /\ runtimes'[i].state = "shutdown"

\* C12 (atomic critical section): a call inside its sequence holds the registry
\* lock, so at most one call is inside a sequence and at most one provisioning
\* is in progress; and every step that changes the map, builds a runtime or
\* shuts one down is a step of the call that holds the lock.
C12_AtomicSection ==
    /\ [](/\ \A t \in Threads : InSection(t) => mutex = t
          /\ Cardinality({t \in Threads : InSection(t)}) <= 1
          /\ Cardinality({t \in Threads : Provisioning(t)}) <= 1)
    /\ [][(RUNTIME_MAP' # RUNTIME_MAP \/ RuntimeBuiltOrShut) =>
             \E t \in Threads :
                /\ InSection(t)
                /\ mutex = t
                /\ pc'[t] # pc[t]
                /\ \A u \in Threads \ {t} : pc'[u] = pc[u]]_vars

\* one start is provisioning under the lock while the other thread's call, on
\* any key, waits for the lock
C12_Witness ==
    \E t, u \in Threads :
        /\ Provisioning(t)
        /\ pc[t] = "insert"
        /\ mutex = t
        /\ pc[u] = "convert"
        /\ ~aborted

\* the execution contexts that were created and not shut down
LiveRuntimes == { i \in DOMAIN runtimes : runtimes[i].state = "live" }

\* the execution contexts the records of the map own
OwnedRuntimes == { RUNTIME_MAP[k].rt : k \in DOMAIN RUNTIME_MAP }

\* C13 (no leaked or shared contexts): when no call holds the registry lock,
\* every record owns a live context, no two records own the same context, and
\* every live context is owned by a record.
C13_NoLeak ==
    (mutex = 0) =>
        /\ \A k \in DOMAIN RUNTIME_MAP : RUNTIME_MAP[k].rt \in LiveRuntimes
        /\ \A k1, k2 \in DOMAIN RUNTIME_MAP :
              RUNTIME_MAP[k1].rt = RUNTIME_MAP[k2].rt => k1 = k2
        /\ LiveRuntimes = OwnedRuntimes

\* a record with its live context and a context that was shut down, with the
\* lock free
C13_Witness ==
    /\ mutex = 0
    /\ ~aborted
    /\ Cardinality(DOMAIN RUNTIME_MAP) = 1
    /\ Cardinality(LiveRuntimes) = 1
    /\ Len(runtimes) = 2

\* a start failed while provisioning: its panic was raised under the lock
\* (lines 150, 151, 233, 241), and has aborted the process or poisoned the lock
FailedUnderLock ==
    \/ poisoned
    \/ \E t \in Threads : pc[t] = "panic" /\ mutex = t /\ aborted

\* C14 as claimed (failed sibling provisioning): while an instance has a record,
\* a failed provisioning of another key leaves the process alive and the lock
\* usable, so that later calls on the instance's key behave as without it.
C14_SiblingUnaffected ==
    (RUNTIME_MAP # << >>) => ~FailedUnderLock

\* the start call of thread t has failed while provisioning
FailedProvision(t) == op[t] = "start" /\ pc[t] = "panic" /\ mutex = t

\* C15 (failed provisioning inserts and spawns nothing): the step at which a
\* start on a key without a record fails, at the port binding or at the runtime
\* construction, and the unwinding that follows, leave the map and every
\* runtime as they were; the failed call has built no runtime, its key has no
\* record and no live runtime.
C15_FailedProvisioning ==
    /\ [](\A t \in Threads :
            FailedProvision(t) =>
                /\ config_key[t] \notin DOMAIN RUNTIME_MAP
                /\ runtime[t] = 0
                /\ \A i \in RuntimesOf(config_key[t]) : runtimes[i].state # "live")
    /\ [][\A t \in Threads :
            (op[t] = "start" /\ InSection(t) /\ pc'[t] = "panic") =>
                /\ config_key[t] \notin DOMAIN RUNTIME_MAP
                /\ RUNTIME_MAP' = RUNTIME_MAP
                /\ runtimes' = runtimes]_vars
    /\ [][\A t \in Threads :
            (FailedProvision(t) /\ pc'[t] # "panic") =>
                /\ RUNTIME_MAP' = RUNTIME_MAP
                /\ runtimes' = runtimes]_vars

\* a start has failed at the runtime construction (its port was allocated)
\* while another key has a record
C15_Witness ==
    \E t \in Threads :
        /\ FailedProvision(t)
        /\ listen_addr[t] # << >>
        /\ RUNTIME_MAP # << >>

\* the call of thread t has panicked without the lock
PanickedUnlocked(t) == pc[t] = "panic" /\ mutex # t

\* C16 (malformed input): a call whose argument is not valid UTF-8 panics at the
\* conversion, before the lock is taken: the step and the unwinding that
\* follows leave the map, the lock and its poison flag, and every runtime as
\* they were, and a call that panicked before it formatted its key does not
\* hold the lock.
C16_MalformedInput ==
    /\ [](\A t \in Threads :
            (pc[t] = "panic" /\ config_key[t] = << >>) => mutex # t)
    /\ [][\A t \in Threads :
            (pc[t] = "convert" /\ pc'[t] = "panic") =>
                /\ mutex # t
                /\ reg' = reg
                /\ runtimes' = runtimes]_vars
    /\ [][\A t \in Threads :
            (PanickedUnlocked(t) /\ pc'[t] # "panic") =>
                /\ reg' = reg
                /\ runtimes' = runtimes]_vars

\* a call has panicked at the conversion (both setups are done and the lock is
\* not poisoned, so at nothing else) while the map holds a record
C16_Witness ==
    \E t \in Threads :
        /\ PanickedUnlocked(t)
        /\ config_key[t] = << >>
        /\ LOG_INIT = "done" /\ DNS_INIT = "done"
        /\ ~poisoned
        /\ RUNTIME_MAP # << >>
        /\ mutex = 0

\* the number of elements of sequence seq that satisfy Test
CountIn(seq, Test(_)) == Cardinality({ x \in DOMAIN seq : Test(seq[x]) })

\* the workers of runtime i are the ones its endpoints ask for
WorkersAsAsked(i) ==
    LET eps == runtimes[i].endpoints
        ws == runtimes[i].workers
    IN  /\ \A p \in Ports :
              LET AtP(x) == x.endpoint.listen = format_addr(p)
                  AsksUdp(x) == AtP(x) /\ x.use_udp = TRUE
                  AsksTcp(x) == AtP(x) /\ x.no_tcp = FALSE
                  IsUdp(w) == w.listen = format_addr(p) /\ w.kind = "udp"
                  IsTcp(w) == w.listen = format_addr(p) /\ w.kind = "tcp"
              IN  /\ CountIn(ws, IsUdp) = CountIn(eps, AsksUdp)
                  /\ CountIn(ws, IsTcp) = CountIn(eps, AsksTcp)
        /\ Len(ws) <= 2 * Len(eps)
        /\ (\A x \in DOMAIN eps : eps[x].use_udp = FALSE /\ eps[x].no_tcp = TRUE) =>
              (ws = << >> /\ runtimes[i].orch = "done")

\* C17 (worker selection): once the orchestrator has run, each endpoint has a
\* UDP worker iff its use_udp is true and a TCP worker iff its no_tcp is false,
\* so 0, 1 or 2 workers; with no worker asked for the orchestrator is done.
C17_WorkerSelection ==
    \A i \in DOMAIN runtimes :
        IF runtimes[i].orch = "spawned"
        THEN runtimes[i].workers = << >>
        ELSE WorkersAsAsked(i)

\* two endpoints, the first with no worker and the second with a UDP worker
\* alone, after the orchestrator has run
C17_Witness ==
    \E i \in DOMAIN runtimes :
        LET eps == runtimes[i].endpoints
        IN  /\ Len(eps) = 2
            /\ eps[1].use_udp = FALSE /\ eps[1].no_tcp = TRUE
            /\ eps[2].use_udp = TRUE /\ eps[2].no_tcp = TRUE
            /\ runtimes[i].orch = "joining"
            /\ Len(runtimes[i].workers) = 1

\* worker w of runtime i is running
Serving(i, w) == w \in DOMAIN runtimes[i].workers /\ runtimes[i].workers[w].st = "serving"

\* worker w of runtime i terminates in this step
Terminates(i, w) ==
    /\ Serving(i, w)
    /\ w \in DOMAIN runtimes'[i].workers
    /\ runtimes'[i].workers[w].st = "exited"

\* C18 (join-all): the orchestrator is done only when each of its workers has
\* exited; the step at which a worker terminates leaves the orchestrator and the
\* other workers as they were; and a running worker stops running only by
\* terminating itself or when its runtime, told to shut down, drops it.
C18_JoinAll ==
    /\ [](\A i \in DOMAIN runtimes :
            runtimes[i].orch = "done" =>
                \A w \in DOMAIN runtimes[i].workers : runtimes[i].workers[w].st = "exited")
    /\ [][\A i \in DOMAIN runtimes : \A w \in DOMAIN runtimes[i].workers :
            Terminates(i, w) =>
                /\ runtimes'[i].orch = runtimes[i].orch
                /\ runtimes'[i].state = runtimes[i].state
                /\ \A x \in DOMAIN runtimes[i].workers \ {w} :
                      runtimes'[i].workers[x] = runtimes[i].workers[x]]_vars
    /\ [][\A i \in DOMAIN runtimes : \A w \in DOMAIN runtimes[i].workers :
            (Serving(i, w) /\ ~Serving(i, w)') =>
                \/ Terminates(i, w)
                \/ runtimes[i].state = "shutdown" /\ runtimes'[i].state = "terminated"]_vars

\* one worker of a live runtime has terminated, the other is running and the
\* orchestrator waits
C18_Witness ==
    \E i \in DOMAIN runtimes :
        /\ runtimes[i].state = "live"
        /\ runtimes[i].orch = "joining"
        /\ \E w, x \in DOMAIN runtimes[i].workers :
              /\ runtimes[i].workers[w].st = "exited"
              /\ runtimes[i].workers[x].st = "serving"

\* thread t is inside initialize_once
InInit(t) == pc[t] \in {"log_once", "setup_log", "dns_once", "setup_dns"}

\* both setups have completed
InitDone == LOG_INIT = "done" /\ DNS_INIT = "done"

\* C19 (initialization precedes provisioning): a start call that is at the
\* registry, or has failed under its lock, finds both setups completed, and so
\* does every record and every runtime; setup_dns has not begun unless
\* setup_log has completed; a stop call is never inside initialize_once, and
\* every step that moves a Once cell or runs a setup is a step of a start call.
C19_InitFirst ==
    /\ [](/\ \A t \in Threads :
                (op[t] = "start" /\ (InSection(t) \/ FailedProvision(t))) => InitDone
          /\ (RUNTIME_MAP # << >> \/ runtimes # << >>) => InitDone
          /\ (DNS_INIT # "new" \/ dns_runs > 0) => LOG_INIT = "done"
          /\ \A t \in Threads : op[t] = "stop" => ~InInit(t))
    /\ [][(once' # once) =>
             \E t \in Threads :
                /\ op[t] = "start"
                /\ InInit(t)
                /\ pc'[t] # pc[t]]_vars

\* a stop call is at the registry while a start call runs setup_dns, after
\* setup_log
C19_Witness ==
    \E t, u \in Threads :
        /\ op[t] = "stop" /\ pc[t] = "locked" /\ mutex = t
        /\ op[u] = "start" /\ pc[u] = "setup_dns"
        /\ DNS_INIT = "running"
        /\ log_runs = 1

\* the orchestrator of key k's instance has completed: no worker of it is left
Inert(k) ==
    /\ k \in DOMAIN RUNTIME_MAP
    /\ runtimes[RUNTIME_MAP[k].rt].orch = "done"

\* C20 (records are removed only by stop): a step of an instance's tasks leaves
\* the map as it was; a record leaves the map, or changes its runtime or its
\* address, only when a stop on its key takes its count from 1 to 0, and its
\* count changes only in a start or stop on its key; a start on a key whose
\* instance has no worker left returns the stored address, counts one more
\* reference and touches no runtime.
C20_RemovedOnlyByStop ==
    /\ [][(runtimes' # runtimes /\ pc' = pc) => RUNTIME_MAP' = RUNTIME_MAP]_vars
    /\ [][\A k \in DOMAIN RUNTIME_MAP :
            \/ /\ k \in DOMAIN RUNTIME_MAP'
               /\ RUNTIME_MAP'[k].rt = RUNTIME_MAP[k].rt
               /\ RUNTIME_MAP'[k].addr = RUNTIME_MAP[k].addr
               /\ \/ RUNTIME_MAP'[k].count = RUNTIME_MAP[k].count
                  \/ \E t \in Threads :
                        /\ pc[t] = "locked" /\ config_key[t] = k /\ pc'[t] = "idle"
                        /\ RUNTIME_MAP'[k].count =
                              RUNTIME_MAP[k].count + (IF op[t] = "start" THEN 1 ELSE 0)
                                                   - (IF op[t] = "stop" THEN 1 ELSE 0)
            \/ /\ k \notin DOMAIN RUNTIME_MAP'
               /\ RUNTIME_MAP[k].count = 1
               /\ \E t \in Threads : Steps(t, "stop") /\ config_key[t] = k]_vars
    /\ [][\A t \in Threads :
            (Steps(t, "start") /\ Inert(config_key[t])) =>
                /\ pc'[t] = "idle"
                /\ RUNTIME_MAP[config_key[t]].addr \in returned'[config_key[t]]
                /\ RUNTIME_MAP'[config_key[t]] =
                      [RUNTIME_MAP[config_key[t]] EXCEPT !.count = @ + 1]
                /\ runtimes' = runtimes]_vars

\* a record shared by two starts whose instance has no worker left
C20_Witness ==
    \E k \in Keys :
        /\ Inert(k)
        /\ RUNTIME_MAP[k].count = 2
        /\ runtimes[RUNTIME_MAP[k].rt].state = "live"
        /\ \A w \in DOMAIN runtimes[RUNTIME_MAP[k].rt].workers :
              runtimes[RUNTIME_MAP[k].rt].workers[w].st = "exited"

=============================================================================
